---- MODULE Spec2Model ----
(***************************************************************************)
(* Model of the jigsaw piece layout generator (PuzzleShapeGenerator,       *)
(* brain-ui-v3/js/puzzle-shapes.js) and of the explosion / reveal          *)
(* sequencer of the latest viewer (BrainViewer, brain-ui-v12/js/viewer.js).*)
(*                                                                         *)
(* SpecGen drives the generator: the constructor's double loop, one piece  *)
(* per step, followed by shape and descriptor queries.                     *)
(* Spec drives the viewer: clicks, timers, frames, the speed slider, the   *)
(* puzzle-size select and the restart button.                              *)
(* SpecLive is Spec without the restart button, with timers and frames    *)
(* that keep coming.  SpecV3 drives the staggered viewer of part_002,      *)
(* SpecPage the page start-up of brain-ui-v12/js/main.js, SpecSolve the    *)
(* click-to-solve viewer of brain-ui/js/viewer.js and SpecHover the hover  *)
(* viewer of part_003.                                                     *)
(***************************************************************************)
EXTENDS Integers, Sequences, FiniteSets, TLC

\* ------------------------------------------------------------------ bounds
\* Largest number of rows / columns handed to the constructor.
MaxDim == 3
\* Largest number of pieces (rows * cols) of a generated grid.
MaxPieces == 9
\* Largest width and largest height handed to generatePiecePath.
MaxWidth == 2
MaxHeight == 1

\* ------------------------------------------------------------ JS values
Null == "null"
Undefined == "undefined"
NoError == "none"

Abs(n) == IF n < 0 THEN -n ELSE n

Last(s) == s[Len(s)]

\* =======================================================================
\*                    PuzzleShapeGenerator (puzzle-shapes.js)
\* =======================================================================
VARIABLES
    rows,      \* this.rows
    cols,      \* this.cols
    shapes,    \* this.shapes, the descriptors pushed so far (row-major)
    row,       \* loop variable of generateShapes' outer loop
    col,       \* loop variable of generateShapes' inner loop
    gpc,       \* "generating" inside the constructor, "ready" once it returned
    query      \* the last query made on the ready generator and what it returned

genVars == <<rows, cols, shapes, row, col, gpc, query>>

\* The state of the viewer (BrainViewer, below).
VARIABLES
    now,                       \* Date.now()
    started,                   \* viewer.start() has been called: frames run
    brainModel,                \* number of meshes of this.brainModel, 0 for null
    puzzleExploded,
    matrixExploding,
    matrixExplodeStart,
    greenMelting,
    greenMeltStart,
    explosionSpeedMultiplier,  \* in tenths
    puzzleRows,
    puzzleCols,
    puzzleGenerator,           \* the rows and cols the current generator was built for
    jigsawPieces,
    greenOverlay,
    matrixOverlay,
    timers,                    \* pending setTimeout callbacks, in scheduling order
    infoPanelOpacity,
    events,                    \* user events so far (bounds the run)
    lastOp                     \* the handler that ran last, and the case it was in

viewVars == <<now, started, brainModel, puzzleExploded, matrixExploding,
              matrixExplodeStart, greenMelting, greenMeltStart,
              explosionSpeedMultiplier, puzzleRows, puzzleCols, puzzleGenerator,
              jigsawPieces, greenOverlay, matrixOverlay, timers,
              infoPanelOpacity, events, lastOp>>

\* The viewer's variables other than the clock.
viewNoClock == <<started, brainModel, puzzleExploded, matrixExploding,
                 matrixExplodeStart, greenMelting, greenMeltStart,
                 explosionSpeedMultiplier, puzzleRows, puzzleCols,
                 puzzleGenerator, jigsawPieces, greenOverlay, matrixOverlay,
                 timers, infoPanelOpacity, events, lastOp>>

\* The state of the page start-up (brain-ui-v12/js/main.js), of the
\* click-to-solve viewer (brain-ui/js/viewer.js) and of the hover viewer.
VARIABLES
    page,              \* the DOMContentLoaded handler: position, load, calls, message
    puzzlePieces,      \* this.puzzlePieces of the click-to-solve / hover viewer
    piecesSolved,      \* this.piecesSolved
    completeMessages,  \* messages appended by onPuzzleComplete so far
    hoveredPiece,      \* this.hoveredPiece, 0 for null
    autoRotate         \* this.controls.autoRotate

extraVars == <<page, puzzlePieces, piecesSolved, completeMessages,
               hoveredPiece, autoRotate>>

\* main.js before DOMContentLoaded, no timer set (-1); the small viewers not
\* constructed.
PageInitial ==
    [pc |-> "loading document", load |-> "none", loadCalls |-> 0,
     startCalls |-> 0, errorMsg |-> "", loadingTimeout |-> -1,
     raceTimeout |-> -1, loadingHidden |-> -1]

ExtraUnused ==
    /\ page = PageInitial
    /\ puzzlePieces = <<>>
    /\ piecesSolved = 0
    /\ completeMessages = 0
    /\ hoveredPiece = 0
    /\ autoRotate = FALSE

vars == <<genVars, viewVars, extraVars>>

\* this.shapes[i] with JavaScript's 0-based indexing: undefined outside the array.
HasShape(s, i) == i >= 0 /\ i < Len(s)

ShapeAt(s, i) == IF HasShape(s, i) THEN s[i + 1] ELSE Undefined

\* The object literal of generateShapes: border edges straight, the others null.
M_InitialPiece_index(r, c, nrows, ncols) ==
    [row |-> r, col |-> c, index |-> r * nrows + c,
     top    |-> IF r = 0 THEN "straight" ELSE Null,
     right  |-> IF c = ncols - 1 THEN "straight" ELSE Null,
     bottom |-> IF r = nrows - 1 THEN "straight" ELSE Null,
     left   |-> IF c = 0 THEN "straight" ELSE Null]

InitialPiece(r, c, nrows, ncols) ==
    [row |-> r, col |-> c, index |-> r * ncols + c,
     top    |-> IF r = 0 THEN "straight" ELSE Null,
     right  |-> IF c = ncols - 1 THEN "straight" ELSE Null,
     bottom |-> IF r = nrows - 1 THEN "straight" ELSE Null,
     left   |-> IF c = 0 THEN "straight" ELSE Null]

\* neighbour.edge === 'tab' ? 'blank' : 'tab'
M_ComplementOf_same(edge) == IF edge = "tab" THEN "tab" ELSE "blank"

ComplementOf(edge) == IF edge = "tab" THEN "blank" ELSE "tab"

\* if (piece.e === null) piece.e = Math.random() > 0.5 ? 'tab' : 'blank'
M_RandomEdge_always(cur, draw) == IF draw THEN "tab" ELSE "blank"

RandomEdge(cur, draw) ==
    IF cur = Null THEN (IF draw THEN "tab" ELSE "blank") ELSE cur

\* One iteration of the inner loop: the piece pushed for (r, c), given the
\* pieces pushed before it and the two Math.random() outcomes.
NextPiece(s, r, c, nrows, ncols, drawRight, drawBottom) ==
    LET p0 == InitialPiece(r, c, nrows, ncols)
        p1 == IF c > 0
              THEN [p0 EXCEPT !.left = ComplementOf(ShapeAt(s, r * ncols + c - 1).right)]
              ELSE p0
        p2 == IF r > 0
              THEN [p1 EXCEPT !.top = ComplementOf(ShapeAt(s, (r - 1) * ncols + c).bottom)]
              ELSE p1
        p3 == [p2 EXCEPT !.right = RandomEdge(p2.right, drawRight)]
    IN  [p3 EXCEPT !.bottom = RandomEdge(p3.bottom, drawBottom)]

NoQuery == [op |-> "none"]

\* The conditions of the two for loops: (r, c) is a position the body runs for.
InLoop(r, c, nrows, ncols) == r < nrows /\ c < ncols

\* new PuzzleShapeGenerator(rows, cols), up to the call of generateShapes.
GenInit ==
    /\ rows \in 0..MaxDim
    /\ cols \in 0..MaxDim
    /\ rows * cols <= MaxPieces
    /\ shapes = <<>>
    /\ row = 0
    /\ col = 0
    /\ gpc = "generating"
    /\ query = NoQuery

\* One pass through the body of the inner loop.
generateShapes ==
    /\ gpc = "generating"
    /\ InLoop(row, col, rows, cols)
    /\ \E drawRight \in BOOLEAN, drawBottom \in BOOLEAN :
          shapes' = Append(shapes, NextPiece(shapes, row, col, rows, cols,
                                             drawRight, drawBottom))
    /\ IF col + 1 < cols
       THEN col' = col + 1 /\ row' = row
       ELSE col' = 0 /\ row' = row + 1
    /\ UNCHANGED <<rows, cols, gpc, query>>
    /\ UNCHANGED <<viewVars, extraVars>>

\* Both loops are over (at once when rows < 1 or cols < 1): the constructor returns.
constructorReturns ==
    /\ gpc = "generating"
    /\ ~InLoop(row, col, rows, cols)
    /\ gpc' = "ready"
    /\ UNCHANGED <<rows, cols, shapes, row, col, query>>
    /\ UNCHANGED <<viewVars, extraVars>>

\* ------------------------------------------------------------ contours
\* Coordinates of a contour are kept in units of 1/10000 of a pixel, so that
\* every factor of createEdgePath (0.25, 0.35 * 0.05, ...) is an exact integer.
Px(n) == n * 10000

\* n * (k / 10000), in contour units, for n in pixels.
Times(n, k) == n * k

Cmd(c, ps) == [cmd |-> c, pts |-> ps]

\* The Bezier edge of a tab or a blank from (x1, y1) to (x2, y2).  The edges
\* handed over by generatePiecePath are axis-parallel, so that
\* Math.sqrt(dx * dx + dy * dy) is |dx| + |dy|.
M_createEdgePath_short(x1, y1, x2, y2, isTab, orientation) ==
    LET dx == x2 - x1
        dy == y2 - y1
    IN  << Cmd("L", << <<Px(x1) + Times(dx, 2500), Px(y1) + Times(dy, 2500)>> >>),
           Cmd("L", << <<Px(x1) + Times(dx, 7500), Px(y1) + Times(dy, 7500)>> >>) >>

createEdgePath(x1, y1, x2, y2, isTab, orientation) ==
    LET dx == x2 - x1
        dy == y2 - y1
        length == Abs(dx) + Abs(dy)
        horizontal == orientation = "horizontal"
        perpX == IF horizontal THEN 0 ELSE (IF isTab THEN 1 ELSE -1)
        perpY == IF horizontal THEN (IF isTab THEN -1 ELSE 1) ELSE 0
        \* tabDepth = length * 0.35; neckWidth = 0.25; mid = 0.5
        midX == Px(x1) + Times(dx, 5000)
        midY == Px(y1) + Times(dy, 5000)
        x_start == Px(x1) + Times(dx, 2500)
        y_start == Px(y1) + Times(dy, 2500)
        x_end == Px(x1) + Times(dx, 7500)
        y_end == Px(y1) + Times(dy, 7500)
        \* tabDepth * 0.6
        tabCenterX == midX + perpX * Times(length, 2100)
        tabCenterY == midY + perpY * Times(length, 2100)
        \* tabDepth * 0.05
        c1x == x_start + perpX * Times(length, 175)
        c1y == y_start + perpY * Times(length, 175)
        \* dx * 0.05, tabDepth * 0.5
        c2x == x_start - Times(dx, 500) + perpX * Times(length, 1750)
        c2y == y_start - Times(dy, 500) + perpY * Times(length, 1750)
        \* tabDepth * 0.4
        leftX == tabCenterX - (IF horizontal THEN 0 ELSE Times(length, 1400))
        leftY == tabCenterY - (IF horizontal THEN Times(length, 1400) ELSE 0)
        \* tabDepth * 0.35
        topX == tabCenterX + perpX * Times(length, 1225)
        topY == tabCenterY + perpY * Times(length, 1225)
        rightX == tabCenterX + (IF horizontal THEN 0 ELSE Times(length, 1400))
        rightY == tabCenterY + (IF horizontal THEN Times(length, 1400) ELSE 0)
        c3x == x_end + Times(dx, 500) + perpX * Times(length, 1750)
        c3y == y_end + Times(dy, 500) + perpY * Times(length, 1750)
        c4x == x_end + perpX * Times(length, 175)
        c4y == y_end + perpY * Times(length, 175)
    IN  << Cmd("L", << <<x_start, y_start>> >>),
           Cmd("C", << <<c1x, c1y>>, <<c2x, c2y>>, <<leftX, leftY>> >>),
           Cmd("Q", << <<tabCenterX, tabCenterY>>, <<topX, topY>> >>),
           \* tabDepth * 0.2
           Cmd("Q", << <<tabCenterX + perpX * Times(length, 700),
                         tabCenterY + perpY * Times(length, 700)>>,
                       <<rightX, rightY>> >>),
           Cmd("C", << <<c3x, c3y>>, <<c4x, c4y>>, <<x_end, y_end>> >>),
           Cmd("L", << <<Px(x2), Px(y2)>> >>) >>

StraightTo(x, y) == << Cmd("L", << <<Px(x), Px(y)>> >>) >>

\* The path array of generatePiecePath before path.join(' '): the move, the
\* four edges in drawing order and the closing command.  '' (here the empty
\* sequence) when this.shapes[pieceIndex] is undefined.
generatePiecePath(s, pieceIndex, width, height) ==
    LET piece == ShapeAt(s, pieceIndex)
    IN  IF ~HasShape(s, pieceIndex) THEN <<>>
        ELSE << << Cmd("M", << <<0, 0>> >>) >>,
                IF piece.top = "straight"
                  THEN StraightTo(width, 0)
                  ELSE createEdgePath(0, 0, width, 0, piece.top = "tab", "horizontal"),
                IF piece.right = "straight"
                  THEN StraightTo(width, height)
                  ELSE createEdgePath(width, 0, width, height, piece.right = "tab", "vertical"),
                IF piece.bottom = "straight"
                  THEN StraightTo(0, height)
                  ELSE createEdgePath(width, height, 0, height, piece.bottom = "tab", "horizontal"),
                IF piece.left = "straight"
                  THEN StraightTo(0, 0)
                  ELSE createEdgePath(0, height, 0, 0, piece.left = "tab", "vertical"),
                << Cmd("Z", <<>>) >> >>

getPieceData(s, pieceIndex) == ShapeAt(s, pieceIndex)

\* Indices tried by the queries: every valid one and some on either side.
QueryIndices == -1..(MaxPieces + 1)

\* generator.generatePiecePath(pieceIndex, width, height) on the built generator.
callGeneratePiecePath ==
    /\ gpc = "ready"
    /\ query = NoQuery
    /\ \E i \in QueryIndices, w \in 1..MaxWidth, h \in 1..MaxHeight :
          query' = [op |-> "generatePiecePath", index |-> i, width |-> w, height |-> h,
                    result |-> generatePiecePath(shapes, i, w, h), error |-> NoError]
    /\ UNCHANGED <<rows, cols, shapes, row, col, gpc>>
    /\ UNCHANGED <<viewVars, extraVars>>

\* generator.getPieceData(pieceIndex) on the built generator.
callGetPieceData ==
    /\ gpc = "ready"
    /\ query = NoQuery
    /\ \E i \in QueryIndices :
          query' = [op |-> "getPieceData", index |-> i,
                    result |-> getPieceData(shapes, i), error |-> NoError]
    /\ UNCHANGED <<rows, cols, shapes, row, col, gpc>>
    /\ UNCHANGED <<viewVars, extraVars>>

\* The caller has consumed the result of its query; the generator is as before.
queryReturns ==
    /\ query # NoQuery
    /\ query' = NoQuery
    /\ UNCHANGED <<rows, cols, shapes, row, col, gpc>>
    /\ UNCHANGED <<viewVars, extraVars>>

NextGen ==
    \/ generateShapes
    \/ constructorReturns
    \/ callGeneratePiecePath
    \/ callGetPieceData
    \/ queryReturns

\* ------------------------------------------------------------------------
\*                      Properties of the generator
\* ------------------------------------------------------------------------
Pushed == 0..(Len(shapes) - 1)

IsPair(a, b) == {a, b} = {"tab", "blank"}

\* C1: every interior shared edge is complementary: of two horizontally
\* adjacent pieces the left one's right edge and the right one's left edge are
\* one tab and one blank, and likewise bottom / top of two vertically adjacent
\* pieces; at every moment of the construction, for the pieces pushed so far.
C1_SharedEdgesComplementary ==
    \A i \in Pushed :
        LET a == ShapeAt(shapes, i)
        IN  /\ (a.col + 1 < cols /\ i + 1 \in Pushed) =>
                  IsPair(a.right, ShapeAt(shapes, i + 1).left)
            /\ (a.row + 1 < rows /\ i + cols \in Pushed) =>
                  IsPair(a.bottom, ShapeAt(shapes, i + cols).top)

C1_Witness ==
    /\ gpc = "ready" /\ rows >= 2 /\ cols >= 2
    /\ ShapeAt(shapes, 0).right = "tab" /\ ShapeAt(shapes, 1).left = "blank"
    /\ ShapeAt(shapes, 0).bottom = "blank" /\ ShapeAt(shapes, cols).top = "tab"

\* C2: every outward-facing edge of a boundary piece is straight, for every
\* grid size, and no later assignment overwrites it.
C2_BorderEdgesStraight ==
    \A i \in Pushed :
        LET p == ShapeAt(shapes, i)
        IN  /\ p.row = 0 => p.top = "straight"
            /\ p.row = rows - 1 => p.bottom = "straight"
            /\ p.col = 0 => p.left = "straight"
            /\ p.col = cols - 1 => p.right = "straight"

C2_Witness ==
    /\ gpc = "ready" /\ rows = 1 /\ cols >= 2
    /\ ShapeAt(shapes, cols - 1).left \in {"tab", "blank"}

\* C3: the constructor yields exactly rows * cols descriptors, the one at
\* position i having row = i div cols, col = i mod cols and index = i.
C3_RowMajorDescriptors ==
    (gpc = "ready" /\ rows >= 1 /\ cols >= 1) =>
        /\ Len(shapes) = rows * cols
        /\ \A i \in Pushed :
              LET p == ShapeAt(shapes, i)
              IN  /\ p.index = i
                  /\ p.row = i \div cols /\ p.col = i % cols
                  /\ p.row >= 0 /\ p.row < rows /\ p.col >= 0 /\ p.col < cols
                  /\ p.index = p.row * cols + p.col

C3_Witness == gpc = "ready" /\ rows = 3 /\ cols = 2 /\ Len(shapes) = 6

\* C4: a generator is never produced for rows < 1 or cols < 1 (the
\* construction is rejected instead).
C4_InvalidDimensionsRejected ==
    gpc = "ready" => (rows >= 1 /\ cols >= 1)

\* C5: a piece or shape query with an index outside 0..rows*cols-1 ends in an
\* IndexOutOfRange error and returns nothing.
C5_IndexOutOfRangeRejected ==
    (query.op \in {"generatePiecePath", "getPieceData"}
        /\ ~(query.index \in 0..(rows * cols - 1)))
    => query.error = "IndexOutOfRange"

\* Where an edge of the contour ends: the last point of its last command.
EndPoint(part) == Last(Last(part).pts)

\* C6: the contour of every piece is closed: it starts at (0,0), the four
\* edges end at (w,0), (w,h), (0,h) and (0,0) in that order, each being the
\* corner the next edge starts from, and the last point is the first one.
C6_ContourClosed ==
    (query.op = "generatePiecePath" /\ HasShape(shapes, query.index)) =>
        LET path == query.result
            w == Px(query.width)
            h == Px(query.height)
        IN  /\ Len(path) = 6
            /\ path[1] = << Cmd("M", << <<0, 0>> >>) >>
            /\ EndPoint(path[2]) = <<w, 0>>
            /\ EndPoint(path[3]) = <<w, h>>
            /\ EndPoint(path[4]) = <<0, h>>
            /\ EndPoint(path[5]) = <<0, 0>>
            /\ EndPoint(path[5]) = EndPoint(path[1])
            /\ path[6] = << Cmd("Z", <<>>) >>

C6_Witness ==
    /\ query.op = "generatePiecePath" /\ HasShape(shapes, query.index)
    /\ query.width # query.height
    /\ LET p == ShapeAt(shapes, query.index)
       IN  p.top = "tab" /\ p.right = "blank" /\ p.bottom = "tab" /\ p.left = "blank"

\* The outermost point of the bulge of a tab / blank edge (topX, topY).
Apex(part) == part[3].pts[2]

\* On which side of the piece's own cell [0,w] x [0,h] the bulge of the given
\* side lies: "out" or "in".
BulgeSide(path, side, w, h) ==
    LET a == Apex(path[CASE side = "top" -> 2 [] side = "right" -> 3
                         [] side = "bottom" -> 4 [] side = "left" -> 5])
        out == CASE side = "top" -> a[2] < 0
                 [] side = "right" -> a[1] > w
                 [] side = "bottom" -> a[2] > h
                 [] side = "left" -> a[1] < 0
    IN  IF out THEN "out" ELSE "in"

EdgeKind(p, side) ==
    CASE side = "top" -> p.top [] side = "right" -> p.right
      [] side = "bottom" -> p.bottom [] side = "left" -> p.left

\* C7: on each of the four sides a tab is drawn as a protrusion away from the
\* piece's own cell and a blank as an indentation into it (so that the bulges
\* of the two pieces sharing an edge coincide).
C7_TabsProtrudeBlanksIndent ==
    (query.op = "generatePiecePath" /\ HasShape(shapes, query.index)) =>
        \A side \in {"top", "right", "bottom", "left"} :
            LET kind == EdgeKind(ShapeAt(shapes, query.index), side)
                where == BulgeSide(query.result, side,
                                   Px(query.width), Px(query.height))
            IN  /\ kind = "tab" => where = "out"
                /\ kind = "blank" => where = "in"

\* =======================================================================
\*                      BrainViewer (brain-ui-v12/js/viewer.js)
\* =======================================================================
\* Times are wall-clock milliseconds (Date.now()).  Positions, rotations,
\* scales, opacities and progress values are kept in thousandths; a vector
\* is represented by one coordinate, all three being handled alike.

\* --------------------------------------------------------------- bounds
\* Largest number of meshes of the loaded brain model.
MaxMeshes == 1
\* Largest rows / cols offered by the puzzle-size select.
MaxGrid == 1
\* Wall-clock horizon of a run.
MaxTime == 11000
\* Number of user events (clicks, direct calls, slider and select inputs,
\* restarts) in a run.
MaxEvents == 3
\* The outcomes of the Math.random() draws of one trigger are numbered
\* 0..MaxSeed.
MaxSeed == 0

\* ------------------------------------------------------ program constants
DefaultSpeed == 6          \* explosionSpeedMultiplier = 0.6, in tenths
DefaultRows == 5
DefaultCols == 5
GreenOpacity == 850        \* opacity uniform of the green glow material
MatrixOpacity == 900       \* opacity of the Matrix material
PieceScale == 1600         \* child.scale (1) .multiplyScalar(1.60)
GlowScale == 1420          \* glowMesh.scale: child.scale (1) * 1.42
MatrixScale == 1450        \* matrixMesh.scale: child.scale (1) * 1.45
CameraZ == 6000            \* camera.position.set(0, 0, 6)
PieceBaseDuration == 2500
ClickedBaseDuration == 4000
StaggerMs == 50
InfoPanelDelay == 500
GreenFadeDelay == 3000
MatrixDelay == 4500
MatrixFadeMs == 3000
GreenFadeMs == 2000

\* Values of the explosion-speed slider, in tenths.
Speeds == {6, 20}

\* Distances, in ms, between a frame and the step before it.
TimeSteps == {0, 500, 2500}


Min(a, b) == IF a < b THEN a ELSE b
Max(a, b) == IF a > b THEN a ELSE b

\* base / this.explosionSpeedMultiplier, in whole milliseconds.
BySpeed(base, m) == (base * 10) \div m

\* The transform and opacity the three layers are created with: the piece
\* mesh, the glow mesh and the Matrix mesh copy the transform of their mesh.
MeshPosition(m) == 1000 * m

NoAnimation == [active |-> FALSE]

\* One piece mesh as createPuzzlePiecesForMesh leaves it.
CreatedPiece(m, i, ncols) ==
    [mesh |-> m, pieceIndex |-> i, row |-> i \div ncols, col |-> i % ncols,
     visible |-> TRUE,
     position |-> MeshPosition(m), rotation |-> 0, scale |-> PieceScale,
     opacity |-> 1000,
     originalPosition |-> MeshPosition(m), originalRotation |-> 0,
     originalScale |-> PieceScale,
     animation |-> NoAnimation]

\* The pieces pushed by createPuzzlePiecesForMesh for mesh m.
createPuzzlePiecesForMesh(m, nrows, ncols) ==
    [k \in 1..(nrows * ncols) |-> CreatedPiece(m, k - 1, ncols)]

RECURSIVE PiecesForMeshes(_, _, _)
PiecesForMeshes(n, nrows, ncols) ==
    IF n = 0 THEN <<>>
    ELSE PiecesForMeshes(n - 1, nrows, ncols)
            \o createPuzzlePiecesForMesh(n, nrows, ncols)

\* The piece createPuzzlePiecesForMesh makes on an overlay mesh of mesh m,
\* whose scale is childScale.
OverlayPiece(m, childScale, i, ncols) ==
    [CreatedPiece(m, i, ncols) EXCEPT
        !.scale = (childScale * PieceScale) \div 1000,
        !.originalScale = (childScale * PieceScale) \div 1000]

\* The pieces made on the glow mesh and the Matrix mesh of the meshes 1..n.
RECURSIVE PiecesForOverlays(_, _, _)
PiecesForOverlays(n, nrows, ncols) ==
    IF n = 0 THEN <<>>
    ELSE PiecesForOverlays(n - 1, nrows, ncols)
            \o [k \in 1..(nrows * ncols) |-> OverlayPiece(n, GlowScale, k - 1, ncols)]
            \o [k \in 1..(nrows * ncols) |-> OverlayPiece(n, MatrixScale, k - 1, ncols)]

\* brainModel.traverse in changePuzzleSize: addOverlays has added the glow
\* and Matrix meshes to the parents of the model's meshes, so the traversal
\* meets the n meshes of the model and then their overlay meshes, and every
\* one of them is a mesh with a geometry.
TraversedPieces(n, nrows, ncols) ==
    PiecesForMeshes(n, nrows, ncols) \o PiecesForOverlays(n, nrows, ncols)

NoGreenMelt == [active |-> FALSE]

CreatedGreen(m) ==
    [visible |-> TRUE, opacity |-> GreenOpacity, transparent |-> TRUE,
     position |-> MeshPosition(m), greenMelt |-> NoGreenMelt]

CreatedMatrix(m) ==
    [visible |-> TRUE, opacity |-> MatrixOpacity, position |-> MeshPosition(m),
     matrixAnim |-> [active |-> FALSE]]

\* new BrainViewer(...): the constructor's assignments; no model, no frames.
ViewInit ==
    /\ now = 0
    /\ started = FALSE
    /\ brainModel = 0
    /\ puzzleExploded = FALSE
    /\ matrixExploding = FALSE
    /\ matrixExplodeStart = 0
    /\ greenMelting = FALSE
    /\ greenMeltStart = 0
    /\ explosionSpeedMultiplier = DefaultSpeed
    /\ puzzleRows = DefaultRows
    /\ puzzleCols = DefaultCols
    /\ puzzleGenerator = [rows |-> DefaultRows, cols |-> DefaultCols]
    /\ jigsawPieces = <<>>
    /\ greenOverlay = <<>>
    /\ matrixOverlay = <<>>
    /\ timers = <<>>
    /\ infoPanelOpacity = 1000
    /\ events = 0
    /\ lastOp = "constructor"

\* ------------------------------------------------------------ arithmetic
\* Math.min(elapsed / duration, 1), in thousandths.
Progress(elapsed, duration) == Min((elapsed * 1000) \div duration, 1000)

\* a + (b - a) * t (Vector3.lerpVectors), t in thousandths.
Lerp(a, b, t) == a + ((b - a) * t) \div 1000

\* 1000 * sin(x / 1000) for x >= 0 (Bhaskara's rational approximation).
Sin1000(x) ==
    LET y == x % 6284
        h == IF y < 3142 THEN y ELSE y - 3142
        v == (16 * h * (3142 - h)) \div ((5 * 3142 * 3142 - 4 * h * (3142 - h)) \div 1000)
    IN  IF y < 3142 THEN v ELSE -v

\* Outcome number k of the Math.random() draws of one trigger: the x target
\* in [-20, 20] (cos(angle) * speed) and the rotation delta in [-7.5, 7.5].
RandomTarget(seed, k) == (((seed * 17 + k * 7) % 41) - 20) * 1000
RandomRotation(seed, k) == (((seed * 5 + k * 3) % 15) - 7) * 1000

Indices(seq) == 1..Len(seq)

\* ----------------------------------------------------------- the trigger
\* if (this.puzzleExploded) return;  (handleClick and explodeAllPieces)
M_TriggerIgnored_never == FALSE

TriggerIgnored == puzzleExploded

\* The animation record explodeAllPieces gives the piece at (0-based) index.
ExplosionRecord(p, index, clicked, seed, t, m) ==
    IF index = clicked
    THEN [active |-> TRUE, startTime |-> t,
          duration |-> BySpeed(ClickedBaseDuration, m),
          originalDuration |-> ClickedBaseDuration,
          isClickedPiece |-> TRUE,
          startPos |-> p.position, startRot |-> p.rotation,
          targetPos |-> CameraZ - 2000, targetRot |-> 0,
          startScale |-> p.scale, targetScale |-> p.scale * 20]
    ELSE [active |-> TRUE, startTime |-> t + BySpeed(index * StaggerMs, m),
          duration |-> BySpeed(PieceBaseDuration, m),
          originalDuration |-> PieceBaseDuration,
          isClickedPiece |-> FALSE,
          startPos |-> p.position, startRot |-> p.rotation,
          targetPos |-> (RandomTarget(seed, index) * m) \div 10,
          targetRot |-> RandomRotation(seed, index),
          startScale |-> p.scale, targetScale |-> p.scale]

\* The three setTimeout calls of explodeAllPieces.
ScheduledTimers(t, m) ==
    << [kind |-> "hideInfoPanel", due |-> t + InfoPanelDelay],
       [kind |-> "startGreenOverlayFade", due |-> t + BySpeed(GreenFadeDelay, m)],
       [kind |-> "startMatrixExplosion", due |-> t + BySpeed(MatrixDelay, m)] >>

\* explodeAllPieces(clickedPiece): clicked is a 0-based index into
\* jigsawPieces, or -1 for null.
explodeAllPieces(clicked, seed) ==
    IF TriggerIgnored
    THEN UNCHANGED <<puzzleExploded, jigsawPieces, timers>>
    ELSE /\ puzzleExploded' = TRUE
         /\ jigsawPieces' =
              [k \in Indices(jigsawPieces) |->
                 [jigsawPieces[k] EXCEPT !.animation =
                    ExplosionRecord(jigsawPieces[k], k - 1, clicked, seed, now,
                                    explosionSpeedMultiplier)]]
         /\ timers' = timers \o ScheduledTimers(now, explosionSpeedMultiplier)

\* A user event is counted against the length of the run.
UserEvent ==
    /\ events < MaxEvents
    /\ events' = events + 1

\* raycaster.intersectObjects(this.jigsawPieces, true) returns a hit: the ray
\* is aimed at a piece and there is a piece to meet.
RayHits(aimed) == aimed /\ Len(jigsawPieces) > 0

\* if (intersects.length > 0)
M_IntersectsFound_always(aimed) == TRUE

IntersectsFound(aimed) == RayHits(aimed)

\* A click or touchend on the canvas; hit says whether the pointer is over
\* the place of a piece.
handleClick ==
    /\ UserEvent
    /\ \E hit \in BOOLEAN, seed \in 0..MaxSeed :
          /\ lastOp' = IF puzzleExploded THEN "handleClick: exploded"
                        ELSE IF RayHits(hit) THEN "handleClick: hit"
                        ELSE "handleClick: miss"
          /\ IF TriggerIgnored \/ ~IntersectsFound(hit)
             THEN UNCHANGED <<puzzleExploded, jigsawPieces, timers>>
             ELSE explodeAllPieces(-1, seed)
    /\ UNCHANGED <<now, started, brainModel, matrixExploding, matrixExplodeStart,
                   greenMelting, greenMeltStart, explosionSpeedMultiplier,
                   puzzleRows, puzzleCols, puzzleGenerator, greenOverlay,
                   matrixOverlay, infoPanelOpacity>>
    /\ UNCHANGED <<genVars, extraVars>>

\* viewer.explodeAllPieces(piece) called directly, with or without a piece.
callExplodeAllPieces ==
    /\ UserEvent
    /\ lastOp' = IF puzzleExploded THEN "explodeAllPieces: exploded"
                  ELSE "explodeAllPieces: idle"
    /\ \E clicked \in {-1} \cup {k - 1 : k \in {Len(jigsawPieces)} \cap Indices(jigsawPieces)},
          seed \in 0..MaxSeed :
          explodeAllPieces(clicked, seed)
    /\ UNCHANGED <<now, started, brainModel, matrixExploding, matrixExplodeStart,
                   greenMelting, greenMeltStart, explosionSpeedMultiplier,
                   puzzleRows, puzzleCols, puzzleGenerator, greenOverlay,
                   matrixOverlay, infoPanelOpacity>>
    /\ UNCHANGED <<genVars, extraVars>>

\* ------------------------------------------------------------ the timers
\* The pending timer that fires next: the earliest due, the first scheduled
\* among equals.
NextTimer ==
    CHOOSE i \in Indices(timers) :
        \A j \in Indices(timers) :
            \/ timers[i].due < timers[j].due
            \/ (timers[i].due = timers[j].due /\ i <= j)

RemoveAt(seq, i) == SubSeq(seq, 1, i - 1) \o SubSeq(seq, i + 1, Len(seq))

\* startGreenOverlayFade()
startGreenOverlayFade ==
    /\ greenMelting' = TRUE
    /\ greenMeltStart' = now
    /\ greenOverlay' =
         [k \in Indices(greenOverlay) |->
            IF greenOverlay[k].greenMelt.active THEN greenOverlay[k]
            ELSE [greenOverlay[k] EXCEPT !.greenMelt =
                    [active |-> TRUE, startPos |-> greenOverlay[k].position,
                     originalOpacity |-> GreenOpacity]]]

\* startMatrixExplosion(); the random spiral speed and rotation it stores are
\* read by no frame and are left out.
startMatrixExplosion ==
    /\ matrixExploding' = TRUE
    /\ matrixExplodeStart' = now
    /\ matrixOverlay' =
         [k \in Indices(matrixOverlay) |->
            [matrixOverlay[k] EXCEPT !.matrixAnim =
               [active |-> TRUE, startPos |-> matrixOverlay[k].position,
                angle |-> (k - 1) * 1375, delay |-> (k - 1) * 30]]]

\* A setTimeout callback runs: timers fire when they are due.
timerFires ==
    /\ timers # <<>>
    /\ timers[NextTimer].due <= now
    /\ timers' = RemoveAt(timers, NextTimer)
    /\ lastOp' = timers[NextTimer].kind
    /\ LET kind == timers[NextTimer].kind
       IN  \/ /\ kind = "hideInfoPanel"
              /\ infoPanelOpacity' = 0
              /\ UNCHANGED <<greenMelting, greenMeltStart, greenOverlay,
                             matrixExploding, matrixExplodeStart, matrixOverlay>>
           \/ /\ kind = "startGreenOverlayFade"
              /\ startGreenOverlayFade
              /\ UNCHANGED <<infoPanelOpacity, matrixExploding,
                             matrixExplodeStart, matrixOverlay>>
           \/ /\ kind = "startMatrixExplosion"
              /\ startMatrixExplosion
              /\ UNCHANGED <<infoPanelOpacity, greenMelting, greenMeltStart,
                             greenOverlay>>
    /\ UNCHANGED <<now, started, brainModel, puzzleExploded,
                   explosionSpeedMultiplier, puzzleRows, puzzleCols,
                   puzzleGenerator, jigsawPieces, events>>
    /\ UNCHANGED <<genVars, extraVars>>

\* ------------------------------------------------------------- the frame
\* The Matrix slow fade of one mesh.
M_AnimateMatrix_neverHides(mesh, t) ==
    [mesh EXCEPT !.opacity = 1000 - Progress(t - matrixExplodeStart, MatrixFadeMs)]

AnimateMatrix(mesh, t) ==
    LET progress == Progress(t - matrixExplodeStart, MatrixFadeMs)
    IN  [mesh EXCEPT !.opacity = 1000 - progress,
                     !.visible = IF progress >= 1000 THEN FALSE ELSE @]

\* The green overlay fade of one mesh.
AnimateGreen(mesh, t, m) ==
    IF ~mesh.greenMelt.active THEN mesh
    ELSE LET progress == Progress(t - greenMeltStart, BySpeed(GreenFadeMs, m))
             opacity == (mesh.greenMelt.originalOpacity * (1000 - progress)) \div 1000
         IN  [mesh EXCEPT !.opacity = opacity,
                          !.transparent = opacity < 1000,
                          !.visible = IF progress >= 1000 THEN FALSE ELSE @]

\* The per-frame update of one puzzle piece.
M_AnimatePiece_accumulating(p, t, m) ==
    IF ~p.animation.active THEN p
    ELSE LET progress == Progress(t - p.animation.startTime, p.animation.duration)
         IN  [p EXCEPT !.position = Lerp(p.position, p.animation.targetPos, progress),
                       !.visible = IF progress >= 1000 THEN FALSE ELSE @]

AnimatePiece(p, t, m) ==
    IF ~p.animation.active THEN p
    ELSE
    LET a0 == p.animation
        anim == IF a0.originalDuration # 0
                    /\ a0.duration # BySpeed(a0.originalDuration, m)
                THEN [a0 EXCEPT !.duration = BySpeed(a0.originalDuration, m)]
                ELSE a0
        elapsed == t - anim.startTime
        progress == Progress(elapsed, anim.duration)
    IN  IF anim.isClickedPiece
        THEN LET easeOut == 1000 - ((1000 - progress) * (1000 - progress)) \div 1000
                 scaleProgress == Min((progress * 12) \div 10, 1000)
             IN  [p EXCEPT !.animation = anim,
                           !.position = Lerp(anim.startPos, anim.targetPos, easeOut),
                           !.rotation = anim.startRot + (Sin1000(elapsed) * 200) \div 1000,
                           !.scale = Lerp(anim.startScale, anim.targetScale, scaleProgress),
                           !.opacity = 1000]
        ELSE LET q == 1000 - progress
                 easeOut == 1000 - (((q * q) \div 1000) * q) \div 1000
                 fadeProgress == Max(0, (progress - 500) * 2)
             IN  [p EXCEPT !.animation = anim,
                           !.position = Lerp(anim.startPos, anim.targetPos, easeOut),
                           !.rotation = anim.startRot + (anim.targetRot * easeOut) \div 1000,
                           !.opacity = 1000 - fadeProgress,
                           !.scale = (anim.startScale * (2000 - fadeProgress)) \div 2000,
                           !.visible = IF progress >= 1000 THEN FALSE ELSE @]

\* The instant of the next frame, d ms from now: timers fire when they are
\* due, so that no frame lies beyond a pending timer.
FrameTime(d) ==
    IF timers = <<>> THEN now + d ELSE Min(now + d, timers[NextTimer].due)

\* animate(): the next requestAnimationFrame callback, some time after the
\* previous step.  Before viewer.start() no frame runs and time just passes.
animate ==
    /\ \E d \in TimeSteps :
          /\ now' = FrameTime(d)
          /\ now' <= MaxTime
    /\ lastOp' = "animate"
    /\ matrixOverlay' = IF started /\ matrixExploding
                        THEN [k \in Indices(matrixOverlay) |->
                                AnimateMatrix(matrixOverlay[k], now')]
                        ELSE matrixOverlay
    /\ greenOverlay' = IF started /\ greenMelting
                       THEN [k \in Indices(greenOverlay) |->
                               AnimateGreen(greenOverlay[k], now',
                                            explosionSpeedMultiplier)]
                       ELSE greenOverlay
    /\ jigsawPieces' = IF started /\ puzzleExploded
                       THEN [k \in Indices(jigsawPieces) |->
                               AnimatePiece(jigsawPieces[k], now',
                                            explosionSpeedMultiplier)]
                       ELSE jigsawPieces
    /\ UNCHANGED <<started, brainModel, puzzleExploded, matrixExploding,
                   matrixExplodeStart, greenMelting, greenMeltStart,
                   explosionSpeedMultiplier, puzzleRows, puzzleCols,
                   puzzleGenerator, timers, infoPanelOpacity, events>>
    /\ UNCHANGED <<genVars, extraVars>>

\* ---------------------------------------------------------- the controls
\* The 'input' listener of the explosion-speed slider.
M_Rescaled_skipFirst(p, m) ==
    IF ~p.animation.active \/ p.pieceIndex = 0 THEN p
    ELSE [p EXCEPT !.animation.duration = BySpeed(p.animation.originalDuration, m)]

M_Rescaled_compounding(p, m) ==
    IF ~p.animation.active THEN p
    ELSE [p EXCEPT !.animation.duration = BySpeed(p.animation.duration, m)]

Rescaled(p, m) ==
    IF ~p.animation.active THEN p
    ELSE LET originalDuration == IF p.animation.originalDuration # 0
                                 THEN p.animation.originalDuration
                                 ELSE p.animation.duration
         IN  [p EXCEPT !.animation.originalDuration = originalDuration,
                       !.animation.duration = BySpeed(originalDuration, m)]

speedInput ==
    /\ UserEvent
    /\ lastOp' = "speedInput"
    /\ \E m \in Speeds :
          /\ explosionSpeedMultiplier' = m
          /\ jigsawPieces' = IF puzzleExploded
                             THEN [k \in Indices(jigsawPieces) |->
                                     Rescaled(jigsawPieces[k], m)]
                             ELSE jigsawPieces
    /\ UNCHANGED <<now, started, brainModel, puzzleExploded, matrixExploding,
                   matrixExplodeStart, greenMelting, greenMeltStart, puzzleRows,
                   puzzleCols, puzzleGenerator, greenOverlay, matrixOverlay,
                   timers, infoPanelOpacity>>
    /\ UNCHANGED <<genVars, extraVars>>

\* changePuzzleSize(rows, cols)
M_changePuzzleSize_keepsPieces(nrows, ncols) ==
    /\ puzzleRows' = nrows
    /\ puzzleCols' = ncols
    /\ puzzleGenerator' = [rows |-> nrows, cols |-> ncols]
    /\ jigsawPieces' = jigsawPieces \o TraversedPieces(brainModel, nrows, ncols)

changePuzzleSize(nrows, ncols) ==
    /\ puzzleRows' = nrows
    /\ puzzleCols' = ncols
    /\ puzzleGenerator' = [rows |-> nrows, cols |-> ncols]
    /\ jigsawPieces' = TraversedPieces(brainModel, nrows, ncols)

\* The 'change' listener of the puzzle-size select.
puzzleSizeChange ==
    /\ UserEvent
    /\ lastOp' = IF puzzleExploded THEN "puzzleSizeChange: exploded"
                  ELSE "puzzleSizeChange: idle"
    /\ \E nrows \in 1..MaxGrid, ncols \in 1..MaxGrid :
          IF ~puzzleExploded
          THEN changePuzzleSize(nrows, ncols)
          ELSE UNCHANGED <<puzzleRows, puzzleCols, puzzleGenerator, jigsawPieces>>
    /\ UNCHANGED <<now, started, brainModel, puzzleExploded, matrixExploding,
                   matrixExplodeStart, greenMelting, greenMeltStart,
                   explosionSpeedMultiplier, greenOverlay, matrixOverlay,
                   timers, infoPanelOpacity>>
    /\ UNCHANGED <<genVars, extraVars>>

\* What restart() makes of one green mesh, one Matrix mesh and one piece.
RestoredGreen(mesh) ==
    [mesh EXCEPT !.visible = TRUE,
                 !.opacity = GreenOpacity,
                 !.position = IF mesh.greenMelt.active
                              THEN mesh.greenMelt.startPos ELSE @]

RestoredMatrix(mesh) ==
    [mesh EXCEPT !.visible = TRUE, !.opacity = MatrixOpacity]

M_RestoredPiece_keepsScale(p) ==
    [p EXCEPT !.visible = TRUE,
              !.animation = NoAnimation,
              !.position = p.originalPosition,
              !.rotation = p.originalRotation,
              !.opacity = 1000]

RestoredPiece(p) ==
    [p EXCEPT !.visible = TRUE,
              !.animation = NoAnimation,
              !.position = p.originalPosition,
              !.rotation = p.originalRotation,
              !.scale = p.originalScale,
              !.opacity = 1000]

\* restart(): the click listener of the restart button.
restart ==
    /\ UserEvent
    /\ lastOp' = "restart"
    /\ puzzleExploded' = FALSE
    /\ matrixExploding' = FALSE
    /\ greenMelting' = FALSE
    /\ greenOverlay' = [k \in Indices(greenOverlay) |-> RestoredGreen(greenOverlay[k])]
    /\ matrixOverlay' = [k \in Indices(matrixOverlay) |-> RestoredMatrix(matrixOverlay[k])]
    /\ jigsawPieces' = [k \in Indices(jigsawPieces) |-> RestoredPiece(jigsawPieces[k])]
    /\ infoPanelOpacity' = 1000
    /\ UNCHANGED <<now, started, brainModel, matrixExplodeStart, greenMeltStart,
                   explosionSpeedMultiplier, puzzleRows, puzzleCols,
                   puzzleGenerator, timers>>
    /\ UNCHANGED <<genVars, extraVars>>

\* loadBrainModel() resolves with a model of n meshes: addOverlays builds the
\* three layers of every mesh, and main.js then calls viewer.start().
loadBrainModel ==
    /\ brainModel = 0
    /\ \E n \in 1..MaxMeshes :
          /\ brainModel' = n
          /\ greenOverlay' = [k \in 1..n |-> CreatedGreen(k)]
          /\ matrixOverlay' = [k \in 1..n |-> CreatedMatrix(k)]
          /\ jigsawPieces' = jigsawPieces \o PiecesForMeshes(n, puzzleRows, puzzleCols)
    /\ started' = TRUE
    /\ lastOp' = "loadBrainModel"
    /\ UNCHANGED <<now, puzzleExploded, matrixExploding, matrixExplodeStart,
                   greenMelting, greenMeltStart, explosionSpeedMultiplier,
                   puzzleRows, puzzleCols, puzzleGenerator, timers,
                   infoPanelOpacity, events>>
    /\ UNCHANGED <<genVars, extraVars>>

\* The generator variables while the viewer runs.
GenUnused ==
    /\ rows = DefaultRows
    /\ cols = DefaultCols
    /\ shapes = <<>>
    /\ row = 0
    /\ col = 0
    /\ gpc = "unused"
    /\ query = NoQuery

Init == ViewInit /\ GenUnused /\ ExtraUnused

Next ==
    \/ loadBrainModel
    \/ handleClick
    \/ callExplodeAllPieces
    \/ timerFires
    \/ animate
    \/ speedInput
    \/ puzzleSizeChange
    \/ restart

Spec == Init /\ [][Next]_vars

\* The generator on its own: the viewer stays as constructed.
InitGen == GenInit /\ ViewInit /\ ExtraUnused

SpecGen == InitGen /\ [][NextGen]_vars

\* ------------------------------------------------------------------------
\*                      Properties of the viewer
\* ------------------------------------------------------------------------
\* C8: a trigger that arrives while puzzleExploded is already true, through
\* handleClick or through explodeAllPieces itself, changes nothing: no piece's
\* animation record, no timer, no flag, no overlay; two triggers in immediate
\* succession leave the state that one leaves.
C8_TriggerIdempotent ==
    [][lastOp' \in {"handleClick: exploded", "explodeAllPieces: exploded"}
         => UNCHANGED <<now, started, brainModel, puzzleExploded, matrixExploding,
                        matrixExplodeStart, greenMelting, greenMeltStart,
                        explosionSpeedMultiplier, puzzleRows, puzzleCols,
                        puzzleGenerator, jigsawPieces, greenOverlay,
                        matrixOverlay, timers, infoPanelOpacity>>]_vars

C8_Witness ==
    /\ lastOp = "handleClick: exploded"
    /\ puzzleExploded
    /\ Len(timers) = 3
    /\ jigsawPieces # <<>>
    /\ jigsawPieces[1].animation.active
    /\ jigsawPieces[1].animation.startTime = now

\* The stage is idle and every piece and overlay mesh is as it was created.
Restored ==
    /\ ~puzzleExploded /\ ~matrixExploding /\ ~greenMelting
    /\ \A k \in Indices(jigsawPieces) :
          LET p == jigsawPieces[k]
          IN  /\ p.visible
              /\ ~p.animation.active
              /\ p.position = MeshPosition(p.mesh)
              /\ p.rotation = 0
              /\ p.scale = p.originalScale
              /\ p.originalScale \in {PieceScale, (GlowScale * PieceScale) \div 1000,
                                      (MatrixScale * PieceScale) \div 1000}
              /\ p.opacity = 1000
    /\ \A k \in Indices(greenOverlay) :
          /\ greenOverlay[k].visible
          /\ greenOverlay[k].opacity = GreenOpacity
          /\ greenOverlay[k].position = MeshPosition(k)
    /\ \A k \in Indices(matrixOverlay) :
          /\ matrixOverlay[k].visible
          /\ matrixOverlay[k].opacity = MatrixOpacity
          /\ matrixOverlay[k].position = MeshPosition(k)

\* C9: right after restart(), called in whatever stage, the stage is idle,
\* every piece is visible without animation record and has its original
\* position, rotation, scale and opacity, and every overlay mesh is visible
\* with its original opacity and position.
C9_RestartRestores == lastOp = "restart" => Restored

C9_Witness ==
    /\ lastOp = "restart"
    /\ jigsawPieces # <<>>
    /\ greenOverlay[1].greenMelt.active
    /\ matrixOverlay[1].matrixAnim.active

\* C10: after restart() returns no timer set by an earlier trigger is pending.
C10_RestartClearsTimers == lastOp = "restart" => timers = <<>>

\* An overlay stage is active: a fade flag is set or an overlay mesh is
\* below the opacity it was created with.
OverlayStageActive ==
    \/ greenMelting
    \/ matrixExploding
    \/ \E k \in Indices(greenOverlay) : greenOverlay[k].opacity < GreenOpacity
    \/ \E k \in Indices(matrixOverlay) : matrixOverlay[k].opacity < MatrixOpacity

\* C11: a stage timer that fires after restart() has no effect: whenever an
\* overlay stage is active the puzzle is exploded, so no overlay fade starts
\* while the stage is idle.
C11_StaleTimerNoEffect == OverlayStageActive => puzzleExploded

\* C12: the stages run in the order exploding, Matrix fade, green fade: the
\* green fade never begins before the Matrix fade has begun.
C12_MatrixFadeBeforeGreenFade ==
    (puzzleExploded /\ greenMelting) => matrixExploding

\* C13: a click that hits no piece, also one before the pieces exist, is a
\* no-op: the stage stays idle, no animation record is created, no timer is
\* scheduled and nothing else of the viewer changes.
C13_ClickMissNoOp ==
    [][lastOp' = "handleClick: miss"
         => /\ ~puzzleExploded'
            /\ UNCHANGED <<puzzleExploded, jigsawPieces, timers, matrixExploding,
                           greenMelting, greenOverlay, matrixOverlay,
                           infoPanelOpacity, explosionSpeedMultiplier, now>>]_vars

C13_Witness ==
    /\ lastOp = "handleClick: miss"
    /\ brainModel = 0
    /\ jigsawPieces = <<>>
    /\ ~puzzleExploded
    /\ timers = <<>>

\* The pieces that carry the feature animation.
FeaturePieces ==
    {k \in Indices(jigsawPieces) :
        jigsawPieces[k].animation.active /\ jigsawPieces[k].animation.isClickedPiece}

\* C14: after a click that hits a piece exactly one piece, the clicked one,
\* carries the feature animation.
C14_ClickedPieceIsFeature ==
    lastOp = "handleClick: hit" => Cardinality(FeaturePieces) = 1

\* C15: the progress a frame uses for a piece animation lies in [0, 1], also
\* for a staggered piece whose startTime is still ahead.
C15_ProgressClamped ==
    (lastOp = "animate" /\ started /\ puzzleExploded)
    => \A k \in Indices(jigsawPieces) :
          jigsawPieces[k].animation.active
          => LET anim == jigsawPieces[k].animation
                 progress == Progress(now - anim.startTime, anim.duration)
             IN  progress >= 0 /\ progress <= 1000

\* An explosion piece is hidden only by the frame in which its progress is 1;
\* a feature piece whose progress is 1 is at its target position and scale.
ExplosionPieceDone(p) ==
    p.animation.active /\ ~p.animation.isClickedPiece /\ ~p.visible

FeaturePieceDone(p) ==
    /\ p.animation.active /\ p.animation.isClickedPiece
    /\ p.position = p.animation.targetPos
    /\ p.scale = p.animation.targetScale

\* C16: an object whose progress has reached 1 keeps its terminal state in
\* every later step that is not restart(): an explosion piece stays invisible
\* with its transform as it is, a feature piece stays at its target position
\* and scale at full opacity, whatever the speed slider does meanwhile.
C16_TerminalStateFrozen ==
    [][lastOp' # "restart"
         => \A k \in Indices(jigsawPieces) \cap Indices(jigsawPieces') :
               LET p == jigsawPieces[k]
                   q == jigsawPieces'[k]
               IN  /\ ExplosionPieceDone(p)
                      => /\ ~q.visible
                         /\ q.position = p.position
                         /\ q.rotation = p.rotation
                         /\ q.scale = p.scale
                   /\ FeaturePieceDone(p)
                      => /\ q.position = p.position
                         /\ q.scale = p.scale
                         /\ q.opacity = 1000]_vars

\* C17: of two explosion pieces the one that starts earlier never completes
\* (startTime + duration) later, whatever speed changes were applied.
C17_StaggerOrderSurvives ==
    \A a, b \in Indices(jigsawPieces) :
        LET A == jigsawPieces[a].animation
            B == jigsawPieces[b].animation
        IN  (A.active /\ B.active /\ ~A.isClickedPiece /\ ~B.isClickedPiece
                /\ A.startTime < B.startTime)
            => A.startTime + A.duration <= B.startTime + B.duration

C17_Witness ==
    /\ lastOp = "speedInput"
    /\ puzzleExploded
    /\ explosionSpeedMultiplier = 6
    /\ Len(jigsawPieces) >= 2
    /\ jigsawPieces[1].animation.active /\ jigsawPieces[2].animation.active
    /\ ~jigsawPieces[1].animation.isClickedPiece
    /\ ~jigsawPieces[2].animation.isClickedPiece
    /\ jigsawPieces[2].animation.startTime
          = jigsawPieces[1].animation.startTime + BySpeed(StaggerMs, 20)
    /\ jigsawPieces[2].animation.duration = BySpeed(PieceBaseDuration, 6)

\* The base duration explodeAllPieces gave the record.
BaseDuration(anim) ==
    IF anim.isClickedPiece THEN ClickedBaseDuration ELSE PieceBaseDuration

\* C18: a speed change to m sets the duration of every piece animation to
\* its base duration divided by m and changes nothing else of the piece; a
\* piece without animation is untouched.
C18_SpeedChangeRescalesFromBase ==
    [][lastOp' = "speedInput"
         => /\ Len(jigsawPieces') = Len(jigsawPieces)
            /\ \A k \in Indices(jigsawPieces) :
                  LET p == jigsawPieces[k]
                  IN  jigsawPieces'[k] =
                        IF p.animation.active
                        THEN [p EXCEPT !.animation.duration =
                                 BySpeed(BaseDuration(p.animation),
                                         explosionSpeedMultiplier')]
                        ELSE p]_vars

C18_Witness ==
    /\ lastOp = "speedInput"
    /\ puzzleExploded
    /\ explosionSpeedMultiplier = 20
    /\ Len(jigsawPieces) >= 2
    /\ jigsawPieces[2].visible
    /\ jigsawPieces[2].animation.active
    /\ jigsawPieces[2].animation.startTime
          = jigsawPieces[1].animation.startTime + BySpeed(StaggerMs, 6)
    /\ jigsawPieces[2].animation.duration = BySpeed(PieceBaseDuration, 20)

\* C19: stagger is zero: right after the trigger every piece animation has
\* the trigger time as its startTime.
C19_InstantNoStagger ==
    lastOp \in {"handleClick: hit", "explodeAllPieces: idle"}
    => \A k \in Indices(jigsawPieces) :
          jigsawPieces[k].animation.active
          => jigsawPieces[k].animation.startTime = now

\* ------------------------------------------------------------------------
\*        The staggered viewer of brain-ui-v3 (class BrainViewer, v3)
\* ------------------------------------------------------------------------
\* The v3 class has the fields brainModel, greenOverlay, matrixOverlay,
\* jigsawPieces, puzzleExploded, puzzleRows and puzzleCols of the later
\* class; the fields it lacks stay as constructed.

\* Meshes of the loaded model.
MaxMeshesV3 == 2

\* Steps (events, timer callbacks and frames) of one run.
MaxStepsV3 == 6

StaggerMsV3 == 30          \* startTime: Date.now() + index * 30
DurationV3 == 1400
PieceScaleV3 == 1280       \* child.scale (1) .multiplyScalar(1.28)
MatrixOpacityV3 == 900
InfoPanelDelayV3 == 500

\* Distances, in ms, between a frame and the step before it.
TimeStepsV3 == {1, 30, 720, 1400}

\* One piece mesh as addOverlays leaves it.
CreatedPieceV3(m, i) ==
    [mesh |-> m, pieceIndex |-> i, row |-> i \div puzzleCols,
     col |-> i % puzzleCols, visible |-> TRUE,
     position |-> MeshPosition(m), rotation |-> 0, scale |-> PieceScaleV3,
     opacity |-> 1000, animation |-> NoAnimation]

\* The pieces addOverlays pushes for the meshes 1..n, mesh after mesh.
RECURSIVE PiecesForMeshesV3(_)
PiecesForMeshesV3(n) ==
    IF n = 0 THEN <<>>
    ELSE PiecesForMeshesV3(n - 1)
            \o [k \in 1..(puzzleRows * puzzleCols) |-> CreatedPieceV3(n, k - 1)]

\* A step is counted against the length of the run.
StepV3 ==
    /\ events < MaxStepsV3
    /\ events' = events + 1

\* loadBrainModel() resolves with a model of n meshes and the frames start.
loadBrainModelV3 ==
    /\ brainModel = 0
    /\ \E n \in 1..MaxMeshesV3 :
          /\ brainModel' = n
          /\ greenOverlay' = [k \in 1..n |->
                                [visible |-> TRUE, position |-> MeshPosition(k)]]
          /\ matrixOverlay' = [k \in 1..n |->
                                 [visible |-> TRUE, opacity |-> MatrixOpacityV3,
                                  position |-> MeshPosition(k)]]
          /\ jigsawPieces' = jigsawPieces \o PiecesForMeshesV3(n)
    /\ started' = TRUE
    /\ lastOp' = "loadBrainModel"
    /\ UNCHANGED <<now, puzzleExploded, matrixExploding, matrixExplodeStart,
                   greenMelting, greenMeltStart, explosionSpeedMultiplier,
                   puzzleRows, puzzleCols, puzzleGenerator, timers,
                   infoPanelOpacity, events>>
    /\ UNCHANGED <<genVars, extraVars>>

\* The animation record explodeAllPieces gives the piece at (0-based) index
\* of jigsawPieces.
ExplosionRecordV3(p, index, seed, t) ==
    [active |-> TRUE, startTime |-> t + index * StaggerMsV3,
     duration |-> DurationV3,
     startPos |-> p.position, startRot |-> p.rotation,
     targetPos |-> RandomTarget(seed, index),
     targetRot |-> RandomRotation(seed, index),
     startScale |-> p.scale]

\* explodeAllPieces()
explodeAllPiecesV3(seed) ==
    IF puzzleExploded
    THEN UNCHANGED <<puzzleExploded, jigsawPieces, timers>>
    ELSE /\ puzzleExploded' = TRUE
         /\ jigsawPieces' =
              [k \in Indices(jigsawPieces) |->
                 [jigsawPieces[k] EXCEPT !.animation =
                    ExplosionRecordV3(jigsawPieces[k], k - 1, seed, now)]]
         /\ timers' = timers \o << [kind |-> "hideInfoPanel",
                                    due |-> now + InfoPanelDelayV3] >>

\* A click or touchend on the canvas.
handleClickV3 ==
    /\ StepV3
    /\ \E hit \in BOOLEAN, seed \in 0..MaxSeed :
          /\ lastOp' = IF puzzleExploded THEN "handleClick: exploded"
                        ELSE IF RayHits(hit) THEN "handleClick: hit"
                        ELSE "handleClick: miss"
          /\ IF puzzleExploded \/ ~RayHits(hit)
             THEN UNCHANGED <<puzzleExploded, jigsawPieces, timers>>
             ELSE explodeAllPiecesV3(seed)
    /\ UNCHANGED <<now, started, brainModel, matrixExploding, matrixExplodeStart,
                   greenMelting, greenMeltStart, explosionSpeedMultiplier,
                   puzzleRows, puzzleCols, puzzleGenerator, greenOverlay,
                   matrixOverlay, infoPanelOpacity>>
    /\ UNCHANGED <<genVars, extraVars>>

\* The info-panel timer of explodeAllPieces fires when it is due.
timerFiresV3 ==
    /\ StepV3
    /\ timers # <<>>
    /\ timers[NextTimer].due <= now
    /\ timers' = RemoveAt(timers, NextTimer)
    /\ lastOp' = timers[NextTimer].kind
    /\ infoPanelOpacity' = 0
    /\ UNCHANGED <<now, started, brainModel, puzzleExploded, matrixExploding,
                   matrixExplodeStart, greenMelting, greenMeltStart,
                   explosionSpeedMultiplier, puzzleRows, puzzleCols,
                   puzzleGenerator, jigsawPieces, greenOverlay, matrixOverlay>>
    /\ UNCHANGED <<genVars, extraVars>>

\* The per-frame update of one puzzle piece.
AnimatePieceV3(p, t) ==
    IF ~p.animation.active THEN p
    ELSE
    LET anim == p.animation
        elapsed == t - anim.startTime
        progress == Progress(elapsed, anim.duration)
        q == 1000 - progress
        easeOut == 1000 - (((q * q) \div 1000) * q) \div 1000
        fadeProgress == Max(0, (progress - 500) * 2)
    IN  IF elapsed < 0 THEN p
        ELSE [p EXCEPT !.position = Lerp(anim.startPos, anim.targetPos, easeOut),
                       !.rotation = anim.startRot + (anim.targetRot * easeOut) \div 1000,
                       !.opacity = 1000 - fadeProgress,
                       !.scale = (anim.startScale * (2000 - fadeProgress)) \div 2000,
                       !.visible = IF progress >= 1000 THEN FALSE ELSE @]

\* animate(): the next frame, some time after the previous step.
animateV3 ==
    /\ StepV3
    /\ \E d \in TimeStepsV3 : now' = FrameTime(d)
    /\ lastOp' = "animate"
    /\ jigsawPieces' = IF started /\ puzzleExploded
                       THEN [k \in Indices(jigsawPieces) |->
                               AnimatePieceV3(jigsawPieces[k], now')]
                       ELSE jigsawPieces
    /\ UNCHANGED <<started, brainModel, puzzleExploded, matrixExploding,
                   matrixExplodeStart, greenMelting, greenMeltStart,
                   explosionSpeedMultiplier, puzzleRows, puzzleCols,
                   puzzleGenerator, greenOverlay, matrixOverlay, timers,
                   infoPanelOpacity>>
    /\ UNCHANGED <<genVars, extraVars>>

InitV3 == ViewInit /\ GenUnused /\ ExtraUnused

NextV3 ==
    \/ loadBrainModelV3
    \/ handleClickV3
    \/ timerFiresV3
    \/ animateV3

SpecV3 == InitV3 /\ [][NextV3]_vars

\* C20: in the staggered viewer, right after the trigger at t0 the piece with
\* grid index k has startTime t0 + 30 k, for every piece of every mesh; a
\* piece is not moved before its startTime; and no piece has finished one
\* millisecond after the trigger.
C20_StaggerByGridIndex ==
    /\ lastOp = "handleClick: hit"
       => \A j \in Indices(jigsawPieces) :
             jigsawPieces[j].animation.startTime
                = now + jigsawPieces[j].pieceIndex * StaggerMsV3
    /\ \A j \in Indices(jigsawPieces) :
          (jigsawPieces[j].animation.active
              /\ now < jigsawPieces[j].animation.startTime)
          => jigsawPieces[j].position = jigsawPieces[j].animation.startPos
    /\ (puzzleExploded /\ jigsawPieces # <<>>
           /\ now <= jigsawPieces[1].animation.startTime + 1)
       => \A j \in Indices(jigsawPieces) : jigsawPieces[j].visible

\* ------------------------------------------------------------------------
\*              Timing and completion of the v12 sequence
\* ------------------------------------------------------------------------
\* C21: the Matrix stage of a trigger begins exactly the Matrix delay after
\* the trigger time (the startTime of the piece with stagger 0), whatever the
\* number of pieces and their stagger.
C21_MatrixStartsAtDelay ==
    (lastOp = "startMatrixExplosion" /\ puzzleExploded /\ jigsawPieces # <<>>
        /\ jigsawPieces[1].animation.active)
    => \E m \in Speeds :
          matrixExplodeStart
             = jigsawPieces[1].animation.startTime + BySpeed(MatrixDelay, m)

\* The sequence is complete: every explosion piece is hidden, the Matrix
\* overlay and the green base layer are at opacity 0 and hidden.
Complete ==
    /\ puzzleExploded
    /\ jigsawPieces # <<>>
    /\ \A k \in Indices(jigsawPieces) :
          (jigsawPieces[k].animation.active
              /\ ~jigsawPieces[k].animation.isClickedPiece)
          => ~jigsawPieces[k].visible
    /\ \A k \in Indices(matrixOverlay) :
          matrixOverlay[k].opacity = 0 /\ ~matrixOverlay[k].visible
    /\ \A k \in Indices(greenOverlay) :
          greenOverlay[k].opacity = 0 /\ ~greenOverlay[k].visible

\* The longest sequence, from the trigger to the end of the Matrix fade, and
\* the latest trigger whose sequence ends within MaxTime.
LongestSequence == BySpeed(MatrixDelay, DefaultSpeed) + MatrixFadeMs

LatestTrigger == MaxTime - LongestSequence

\* A click early enough for its sequence to end within MaxTime.
handleClickInTime ==
    /\ now <= LatestTrigger
    /\ handleClick

\* A frame later than the step before it.
animateLater == animate /\ now' > now

\* The viewer without restart: one trigger, the timers and the frames.
NextLive ==
    \/ loadBrainModel
    \/ handleClickInTime
    \/ timerFires
    \/ animate
    \/ speedInput

\* Timers fire and frames keep running.
SpecLive ==
    /\ Init
    /\ [][NextLive]_vars
    /\ WF_vars(timerFires)
    /\ WF_vars(animateLater)

AtStart(p) ==
    [p EXCEPT !.position = p.animation.startPos,
              !.rotation = p.animation.startRot,
              !.scale = p.animation.startScale,
              !.opacity = 1000]

\* C24: what a frame at time t writes is a function of t, the animation
\* records and the multiplier, not of what earlier frames wrote: position,
\* rotation, scale and opacity of every piece and the opacity of every
\* overlay equal what the same frame writes when no frame ran before it.
C24_FrameIsFunctionOfTime ==
    [][(lastOp' = "animate" /\ started)
         => /\ puzzleExploded
               => \A k \in Indices(jigsawPieces) :
                     jigsawPieces[k].animation.active
                     => LET q == jigsawPieces'[k]
                            r == AnimatePiece(AtStart(jigsawPieces[k]), now',
                                              explosionSpeedMultiplier)
                        IN  /\ q.position = r.position
                            /\ q.rotation = r.rotation
                            /\ q.scale = r.scale
                            /\ q.opacity = r.opacity
            /\ matrixExploding
               => \A k \in Indices(matrixOverlay) :
                     matrixOverlay'[k].opacity
                        = AnimateMatrix(CreatedMatrix(k), now').opacity
            /\ greenMelting
               => \A k \in Indices(greenOverlay) :
                     greenOverlay[k].greenMelt.active
                     => greenOverlay'[k].opacity
                           = AnimateGreen([greenOverlay[k] EXCEPT
                                              !.opacity = GreenOpacity],
                                          now', explosionSpeedMultiplier).opacity]_vars

C24_Witness ==
    /\ lastOp = "animate"
    /\ started /\ puzzleExploded /\ greenMelting
    /\ now = BySpeed(GreenFadeDelay, DefaultSpeed) + 2500
    /\ jigsawPieces # <<>>
    /\ jigsawPieces[1].animation.active
    /\ jigsawPieces[1].position # jigsawPieces[1].animation.startPos
    /\ greenOverlay[1].opacity < GreenOpacity
    /\ greenOverlay[1].opacity > 0

\* A piece as createPuzzlePiecesForMesh makes it, of a grid of nrows x ncols.
FreshPiece(p, nrows, ncols) ==
    /\ ~p.animation.active
    /\ p.visible
    /\ p.position = p.originalPosition /\ p.scale = p.originalScale
    /\ p.pieceIndex \in 0..(nrows * ncols - 1)
    /\ p.row = p.pieceIndex \div ncols /\ p.row < nrows
    /\ p.col = p.pieceIndex % ncols

\* C25: a size change requested while the puzzle is exploded leaves the
\* grid, the generator and the pieces unchanged; one accepted while idle
\* sets the grid and the generator and leaves only pieces of the new grid,
\* whole grids of them.
C25_SizeChangeOnlyWhenIdle ==
    [][/\ lastOp' = "puzzleSizeChange: exploded"
          => UNCHANGED <<puzzleRows, puzzleCols, puzzleGenerator, jigsawPieces>>
       /\ lastOp' = "puzzleSizeChange: idle"
          => /\ puzzleGenerator' = [rows |-> puzzleRows', cols |-> puzzleCols']
             /\ \A k \in Indices(jigsawPieces') :
                   FreshPiece(jigsawPieces'[k], puzzleRows', puzzleCols')
             /\ Len(jigsawPieces') % (puzzleRows' * puzzleCols') = 0
             /\ \A k \in Indices(jigsawPieces') :
                   jigsawPieces'[k].pieceIndex = (k - 1) % (puzzleRows' * puzzleCols')
             /\ brainModel > 0 => jigsawPieces' # <<>>]_vars

C25_Witness ==
    /\ lastOp = "puzzleSizeChange: idle"
    /\ brainModel > 0
    /\ puzzleRows # DefaultRows
    /\ Len(jigsawPieces) < DefaultRows * DefaultCols
    /\ jigsawPieces # <<>>

\* C26: every stage delay and duration is its base value divided by the
\* multiplier: after a frame every piece animation lasts its base duration
\* over m, and the Matrix overlay is where a fade of 3000 / m ms puts it.
C26_MultiplierScalesAllStages ==
    (lastOp = "animate" /\ started)
    => /\ puzzleExploded
          => \A k \in Indices(jigsawPieces) :
                jigsawPieces[k].animation.active
                => jigsawPieces[k].animation.duration
                      = BySpeed(BaseDuration(jigsawPieces[k].animation),
                                explosionSpeedMultiplier)
       /\ matrixExploding
          => \A k \in Indices(matrixOverlay) :
                matrixOverlay[k].opacity
                   = 1000 - Progress(now - matrixExplodeStart,
                                     BySpeed(MatrixFadeMs, explosionSpeedMultiplier))

\* C27: when startMatrixExplosion runs every explosion piece has finished.
C27_MatrixAfterPiecesDone ==
    (lastOp = "startMatrixExplosion" /\ puzzleExploded)
    => \A k \in Indices(jigsawPieces) :
          (jigsawPieces[k].animation.active
              /\ ~jigsawPieces[k].animation.isClickedPiece)
          => now >= jigsawPieces[k].animation.startTime
                       + jigsawPieces[k].animation.duration

\* C30: no overlay is ever more opaque than it was created: the Matrix
\* overlay stays at or below 0.9 and the green layer at or below 0.85.
C30_OverlayOpacityBounded ==
    /\ \A k \in Indices(matrixOverlay) : matrixOverlay[k].opacity <= MatrixOpacity
    /\ \A k \in Indices(greenOverlay) : greenOverlay[k].opacity <= GreenOpacity

\* ------------------------------------------------------------------------
\*            The page start-up (brain-ui-v12/js/main.js)
\* ------------------------------------------------------------------------
\* Latest instant of a start-up run.
MaxTimePage == 40000

RaceTimeoutMs == 20000     \* 'Model loading timeout after 20 seconds'
LoadingTimeoutMs == 30000  \* the 'taking longer than expected' timer
HideLoadingMs == 500

\* Distances, in ms, between two instants of a start-up run.
TimeStepsPage == {500, 10000}

\* The timers of the handler: due instants, -1 when cleared or fired.
NoTimer == -1

PageDues == {page.raceTimeout, page.loadingTimeout, page.loadingHidden} \ {NoTimer}

\* document 'DOMContentLoaded': new BrainViewer, loadBrainModel() is called
\* and raced against the 20 s timeout; the handler then awaits the race.
DOMContentLoaded ==
    /\ page.pc = "loading document"
    /\ page' = [page EXCEPT !.pc = "awaiting",
                            !.load = "pending",
                            !.loadCalls = @ + 1,
                            !.loadingTimeout = now + LoadingTimeoutMs,
                            !.raceTimeout = now + RaceTimeoutMs,
                            !.loadingHidden = NoTimer]
    /\ UNCHANGED <<now, puzzlePieces, piecesSolved, completeMessages,
                   hoveredPiece, autoRotate>>
    /\ UNCHANGED <<genVars, viewNoClock>>

\* await Promise.race([...]): the handler goes on only when the race settles,
\* and a race settles once.
M_StartAllowed_always(pc) == TRUE

StartAllowed(pc) == pc = "awaiting"

\* loadBrainModel() resolves.  If the handler still awaits the race it clears
\* the loading timer, calls viewer.start() and schedules the hiding of the
\* loading screen.
loadResolves ==
    /\ page.load = "pending"
    /\ page' = IF StartAllowed(page.pc)
               THEN [page EXCEPT !.load = "resolved",
                                 !.pc = "started",
                                 !.loadingTimeout = NoTimer,
                                 !.startCalls = @ + 1,
                                 !.loadingHidden = now + HideLoadingMs]
               ELSE [page EXCEPT !.load = "resolved"]
    /\ UNCHANGED <<now, puzzlePieces, piecesSolved, completeMessages,
                   hoveredPiece, autoRotate>>
    /\ UNCHANGED <<genVars, viewNoClock>>

\* The catch block: the loading timer is cleared and the message is shown.
Caught(pg, message) ==
    [pg EXCEPT !.pc = "failed", !.loadingTimeout = NoTimer, !.errorMsg = message]

\* loadBrainModel() rejects (GLTFLoader error).
loadRejects ==
    /\ page.load = "pending"
    /\ page' = IF page.pc = "awaiting"
               THEN Caught([page EXCEPT !.load = "rejected"], "load error")
               ELSE [page EXCEPT !.load = "rejected"]
    /\ UNCHANGED <<now, puzzlePieces, piecesSolved, completeMessages,
                   hoveredPiece, autoRotate>>
    /\ UNCHANGED <<genVars, viewNoClock>>

\* The 20 s timer fires and rejects timeoutPromise.
raceTimeoutFires ==
    /\ page.raceTimeout # NoTimer
    /\ page.raceTimeout <= now
    /\ page' = IF page.pc = "awaiting"
               THEN Caught([page EXCEPT !.raceTimeout = NoTimer],
                           "Model loading timeout after 20 seconds")
               ELSE [page EXCEPT !.raceTimeout = NoTimer]
    /\ UNCHANGED <<now, puzzlePieces, piecesSolved, completeMessages,
                   hoveredPiece, autoRotate>>
    /\ UNCHANGED <<genVars, viewNoClock>>

\* The 500 ms timer set after viewer.start() hides the loading screen.
hideLoadingFires ==
    /\ page.loadingHidden # NoTimer
    /\ page.loadingHidden <= now
    /\ page' = [page EXCEPT !.loadingHidden = NoTimer]
    /\ UNCHANGED <<now, puzzlePieces, piecesSolved, completeMessages,
                   hoveredPiece, autoRotate>>
    /\ UNCHANGED <<genVars, viewNoClock>>

\* Time passes, up to the next timer that is due.  (The 30 s loading timer
\* is always cleared before it is due: the race settles after 20 s at most.)
pageTimePasses ==
    /\ \E d \in TimeStepsPage :
          now' = IF \E due \in PageDues : due <= now + d
                 THEN CHOOSE due \in PageDues : \A other \in PageDues : due <= other
                 ELSE now + d
    /\ now' > now
    /\ now' <= MaxTimePage
    /\ UNCHANGED extraVars
    /\ UNCHANGED <<genVars, viewNoClock>>

InitPage ==
    /\ ViewInit
    /\ GenUnused
    /\ ExtraUnused

NextPage ==
    \/ DOMContentLoaded
    \/ loadResolves
    \/ loadRejects
    \/ raceTimeoutFires
    \/ hideLoadingFires
    \/ pageTimePasses

SpecPage == InitPage /\ [][NextPage]_vars

\* C23: viewer.start() is called at most once and only after loadBrainModel()
\* has resolved; once the load has rejected or the 20 s timeout has won,
\* start() is never called, also when the model arrives later, an error
\* message is shown, and the load is not tried again.
C23_StartOnlyAfterLoad ==
    /\ page.startCalls <= 1
    /\ page.loadCalls <= 1
    /\ page.startCalls = 1 => page.load = "resolved"
    /\ page.pc = "failed" => (page.startCalls = 0 /\ page.errorMsg # "")
    /\ page.errorMsg # "" => page.startCalls = 0
    /\ page.load = "rejected" => page.startCalls = 0

C23_Witness ==
    /\ page.pc = "failed"
    /\ page.load = "resolved"
    /\ page.errorMsg = "Model loading timeout after 20 seconds"
    /\ page.startCalls = 0
    /\ now > RaceTimeoutMs

\* ------------------------------------------------------------------------
\*     The click-to-solve viewer (brain-ui/js/viewer.js, second class)
\* ------------------------------------------------------------------------
\* Latest instant of a click-to-solve run.
MaxTimeSolve == 1500

TotalPieces == 9           \* this.totalPieces = 9
FadeMs == 500              \* const duration = 500
SolveOpacity == 600        \* opacity: 0.6

\* Distances, in ms, between two frames.
TimeStepsSolve == {250, 500}

\* No fade closure of the piece is waiting for a frame.
NoFade == -1

\* addPuzzlePieces(brainModel): the nine clickable spheres.
addPuzzlePieces ==
    /\ puzzlePieces = <<>>
    /\ puzzlePieces' = [k \in 1..TotalPieces |->
                          [pieceIndex |-> k - 1, isSolved |-> FALSE,
                           visible |-> TRUE, opacity |-> SolveOpacity,
                           scale |-> 1000, fade |-> NoFade]]
    /\ UNCHANGED <<now, page, piecesSolved, completeMessages, hoveredPiece,
                   autoRotate>>
    /\ UNCHANGED <<genVars, viewNoClock>>

\* onPieceClick(piece), with the first run of its animate closure (elapsed 0).
onPieceClick(k) ==
    IF puzzlePieces[k].isSolved
    THEN UNCHANGED <<puzzlePieces, piecesSolved>>
    ELSE /\ puzzlePieces' = [puzzlePieces EXCEPT ![k].isSolved = TRUE,
                                                 ![k].fade = now,
                                                 ![k].scale = 1000,
                                                 ![k].opacity = SolveOpacity]
         /\ piecesSolved' = piecesSolved + 1

\* The pieces a click is aimed at: the spheres are alike, so they are
\* solved in array order; a click meets the next unsolved piece, the piece
\* solved last, or nothing (0).
ClickTargets ==
    {0} \cup {k \in Indices(puzzlePieces) :
                 \/ k = piecesSolved + 1
                 \/ k = piecesSolved}

\* handleClick(event): intersects[0].object is piece k.
handleClickSolve ==
    /\ \E k \in ClickTargets :
          IF k # 0 /\ ~puzzlePieces[k].isSolved
          THEN onPieceClick(k)
          ELSE UNCHANGED <<puzzlePieces, piecesSolved>>
    /\ UNCHANGED <<now, page, completeMessages, hoveredPiece, autoRotate>>
    /\ UNCHANGED <<genVars, viewNoClock>>

\* The animate closure of one fading piece at time t.
FadeStep(p, t) ==
    IF p.fade = NoFade THEN p
    ELSE LET progress == ((t - p.fade) * 1000) \div FadeMs
         IN  IF progress < 1000
             THEN [p EXCEPT !.scale = 1000 + Sin1000((progress * 3142) \div 1000) \div 2,
                            !.opacity = (SolveOpacity * (1000 - progress)) \div 1000]
             ELSE [p EXCEPT !.visible = FALSE, !.fade = NoFade]

\* The fades that end in the frame at time t.
Ending(t) ==
    {k \in Indices(puzzlePieces) :
        puzzlePieces[k].fade # NoFade /\ t - puzzlePieces[k].fade >= FadeMs}

\* The next frame: every pending animate closure runs; one that ends calls
\* onPuzzleComplete() when piecesSolved === totalPieces.
frameSolve ==
    /\ \E d \in TimeStepsSolve : now' = now + d
    /\ now' <= MaxTimeSolve
    /\ puzzlePieces' = [k \in Indices(puzzlePieces) |-> FadeStep(puzzlePieces[k], now')]
    /\ completeMessages' = IF piecesSolved = TotalPieces
                           THEN completeMessages + Cardinality(Ending(now'))
                           ELSE completeMessages
    /\ UNCHANGED <<page, piecesSolved, hoveredPiece, autoRotate>>
    /\ UNCHANGED <<genVars, viewNoClock>>

InitSolve == ViewInit /\ GenUnused /\ ExtraUnused

NextSolve ==
    \/ addPuzzlePieces
    \/ handleClickSolve
    \/ frameSolve

SpecSolve == InitSolve /\ [][NextSolve]_vars

\* C28: whatever the order and timing of the clicks, piecesSolved is the
\* number of pieces marked isSolved and at most totalPieces, and
\* onPuzzleComplete is invoked at most once, and only when all are solved.
C28_SolvedOnceCompleteOnce ==
    /\ piecesSolved = Cardinality({k \in Indices(puzzlePieces) : puzzlePieces[k].isSolved})
    /\ piecesSolved <= TotalPieces
    /\ completeMessages <= 1
    /\ completeMessages > 0 => piecesSolved = TotalPieces

\* ------------------------------------------------------------------------
\*              The hover viewer (first class of part_003)
\* ------------------------------------------------------------------------
\* Pieces one ray meets at most.
MaxHits == 2

HoverPieces == 9           \* 3 x 3 regions, one per route
HoverOpacity == 600        \* hoverOpacity: 0.6
OriginalOpacity == 0       \* originalOpacity: 0

\* createPuzzlePieces(model): the invisible spheres.
createPuzzlePieces ==
    /\ puzzlePieces = <<>>
    /\ puzzlePieces' = [k \in 1..HoverPieces |-> [opacity |-> OriginalOpacity]]
    /\ UNCHANGED <<now, page, piecesSolved, completeMessages, hoveredPiece,
                   autoRotate>>
    /\ UNCHANGED <<genVars, viewNoClock>>

\* What raycaster.intersectObjects can return: the pieces the ray meets,
\* nearest first.
HitLists ==
    {<<>>} \cup {<<k>> : k \in Indices(puzzlePieces)}
           \cup {<<k, j>> : k \in Indices(puzzlePieces),
                            j \in IF MaxHits >= 2 THEN Indices(puzzlePieces) ELSE {}}

InHits(intersects, piece) == \E i \in Indices(intersects) : intersects[i] = piece

\* updateRaycast(), on 'mousemove' and 'touchmove'.
updateRaycast ==
    \E intersects \in HitLists :
       /\ Len(intersects) = 2 => intersects[1] # intersects[2]
       /\ LET exits == hoveredPiece # 0 /\ ~InHits(intersects, hoveredPiece)
              hovered1 == IF exits THEN 0 ELSE hoveredPiece
              pieces1 == IF exits
                         THEN [puzzlePieces EXCEPT ![hoveredPiece].opacity = OriginalOpacity]
                         ELSE puzzlePieces
              rotate1 == IF exits THEN TRUE ELSE autoRotate
              enters == intersects # <<>> /\ intersects[1] # hovered1
          IN  /\ hoveredPiece' = IF enters THEN intersects[1] ELSE hovered1
              /\ puzzlePieces' = IF enters
                                 THEN [pieces1 EXCEPT ![intersects[1]].opacity = HoverOpacity]
                                 ELSE pieces1
              /\ autoRotate' = IF enters THEN FALSE ELSE rotate1
       /\ UNCHANGED <<now, page, piecesSolved, completeMessages>>
       /\ UNCHANGED <<genVars, viewNoClock>>

\* After the constructor: init() turns auto-rotation on, nothing is hovered.
InitHover ==
    /\ ViewInit
    /\ GenUnused
    /\ page = PageInitial
    /\ puzzlePieces = <<>>
    /\ piecesSolved = 0
    /\ completeMessages = 0
    /\ hoveredPiece = 0
    /\ autoRotate = TRUE

NextHover ==
    \/ createPuzzlePieces
    \/ updateRaycast

SpecHover == InitHover /\ [][NextHover]_vars

\* C29: after any sequence of pointer moves the piece at hover opacity, if
\* any, is hoveredPiece, every other piece has its original opacity, and
\* autoRotate is off exactly while a piece is hovered.
C29_OnlyHoveredHighlighted ==
    /\ \A k \in Indices(puzzlePieces) :
          puzzlePieces[k].opacity
             = IF k = hoveredPiece THEN HoverOpacity ELSE OriginalOpacity
    /\ autoRotate = (hoveredPiece = 0)

====
